---- MODULE Spec2Model ----
(***************************************************************************)
(* Valve controller firmware of arduino_valve_control, three sketches:     *)
(*   "cycle"  src/arduino/valve_controller/valve_controller.ino            *)
(*            (5/3 valve, one cycle button, no EEPROM, no EMI guard)       *)
(*   "bi"     src/unnamed/part_000 lines 1-119                             *)
(*            (5/2 bistable valve, two buttons, EEPROM, pulsed coils)      *)
(*   "tri3"   src/unnamed/part_000 lines 121-240                           *)
(*            (5/3 valve, three buttons, EEPROM, held coils)               *)
(* One step of the model is one statement group of the sketch: every       *)
(* digitalWrite and every delay is a step of its own, so a reset can fall  *)
(* between any two pin writes.  millis() advances in delay() and between   *)
(* two passes of loop(); the statements of one pass take no time.          *)
(* Spec is the board as it is; SpecEdges and SpecHeld are the same board   *)
(* with history kept of the ignored edges, resp. of the presses made in    *)
(* the guard window, of the button channel that checkButtons() visits last.*)
(***************************************************************************)
EXTENDS Integers, Sequences, FiniteSets

\* ASCII codes of the command / state letters
chA == 65
chB == 66
chC == 67
chQ == 63

\* program constants
EMI_GUARD_MS == 400
DEBOUNCE_MS == 200
PULSE_MS == 150
SETTLE_MS == 5

\* bounds of the model
MaxTime == 1200
MaxCmds == 2

\* time that may pass between two passes of loop()
Steps == {200}

\* bytes the host may send ('Z' = 90 stands for the unrecognised ones), and
\* bytes the EEPROM cell may hold at power-on (255 = erased cell)
RxBytes == {chA, chB, chC, chQ, 90}
CellBytes == {chA, chB, chC, 90, 255}

\* Serial.available() == 0: no byte to read in this pass
NoByte == -1
\* the sketch declares no EEPROM cell
NoCell == -2
\* "none yet" in the history variables
None == NoCell - 1

NoTr == [on |-> FALSE, from |-> None, wrote |-> FALSE, saved |-> FALSE,
         pins0 |-> <<>>, cell0 |-> None]
NoRst == [kind |-> "none", from |-> None, to |-> None, wrote |-> FALSE]

HIGH == TRUE
LOW == FALSE

Variants == {"cycle", "bi", "tri3"}

VARIABLES
  variant,        \* which sketch runs on the board
  pc,             \* position of the single thread of control
  millis,         \* value millis() returns now
  currentState,   \* char currentState
  solA, solB, led,\* levels of SOL_A_PIN, SOL_B_PIN, LED_PIN
  eeprom,         \* byte at EEPROM_ADDR (NoCell: the sketch has no EEPROM)
  btnPrev,        \* btnPrev[i] / lastBtnState
  btnLastPress,   \* btnLastPress[i] / lastBtnTime
  lastChangeTime, \* lastChangeTime (guarded sketches)
  now, i, reading,\* locals of checkButtons
  cmd,            \* local of loop(): the byte read, NoByte if none available
  pos, ret,       \* argument of setValve and where it returns to
  ops,            \* pin writes and delays still to run in the current call
  tx,             \* lines printed to Serial since the current pass began
  nCmd,           \* valve commands consumed since power-on (bounded)
  lastCommitted,  \* history: state of the last committed transition, or None
  commitTime,     \* history: millis at the last committed transition, or None
  tr,             \* history: the transition in flight, or NoTr
  rst,            \* history: what the last reset interrupted (until first pass)
  acceptAt,       \* history: per channel, millis when its last accepted edge
                  \* was sampled, or None
  rejectAt,       \* history: per watched channel, millis when its last ignored
                  \* edge was sampled, None if none in the last DEBOUNCE_MS
  nReady,         \* history: READY lines printed since the last boot
  watched,        \* history: the channels whose ignored edges are recorded
  follow,         \* history: the channels whose presses in the guard are followed
  held            \* history: per followed channel, "pressed" (edge sampled in
                  \* a guard pass after a transition), "held" (then sampled
                  \* pressed in a polling pass), "released" (then sampled
                  \* released), else "no"

vars == <<variant, pc, millis, currentState, solA, solB, led, eeprom, btnPrev,
          btnLastPress, lastChangeTime, now, i, reading, cmd, pos, ret, ops,
          tx, nCmd, lastCommitted, commitTime, tr, rst, acceptAt, rejectAt,
          nReady, watched, follow, held>>

pins == <<solA, solB, led>>
ram == <<currentState, btnPrev, btnLastPress, lastChangeTime>>
locals == <<now, i, reading, cmd, pos, ret>>
hist == <<lastCommitted, commitTime, tr, rst, acceptAt, rejectAt, nReady,
watched, follow, held>>

----------------------------------------------------------------------------
\* Per-sketch configuration

Persisting(v) == v \in {"bi", "tri3"}
Guarded(v) == v \in {"bi", "tri3"}

NumBtn(v) == CASE v = "cycle" -> 1 [] v = "bi" -> 2 [] v = "tri3" -> 3

BTN_TARGETS(v) == IF v = "bi" THEN <<chA, chB>> ELSE <<chA, chB, chC>>

\* the case labels of the switch in loop() that call setValve
Legal(v) == IF v = "bi" THEN {chA, chB} ELSE {chA, chB, chC}

\* the initializer of currentState
InitialState(v) == IF v = "bi" THEN chA ELSE chC

\* does the switch in loop() have a default: branch printing ERR:UNKNOWN
HasDefaultCase(v) == v = "cycle"

\* loadSavedState() without the range check (returns the raw byte)
LoadSavedState_Unchecked(v, saved) == saved

\* loadSavedState() that ignores the cell and returns the default
LoadSavedState_DefaultOnly(v, saved) == IF v = "bi" THEN chA ELSE chC

LoadSavedState(v, saved) ==
  IF v = "bi"
    THEN (IF saved = chA \/ saved = chB THEN saved ELSE chA)
    ELSE (IF saved = chA \/ saved = chB \/ saved = chC THEN saved ELSE chC)

\* nextState() stepping the cycle backwards
NextState_Reversed(s) ==
  CASE s = chC -> chB
    [] s = chB -> chA
    [] s = chA -> chC
    [] OTHER -> chC

NextState(s) ==
  CASE s = chC -> chA
    [] s = chA -> chB
    [] s = chB -> chC
    [] OTHER -> chC

----------------------------------------------------------------------------
\* Output drivers, as the sequence of pin writes and delays each performs

W(pin, level) == <<pin, level>>
D(ms) == <<"delay", ms>>

\* applyOutputs() that leaves the LED on in the Center case
ApplyOutputsOps_LedStuck(state) ==
  IF state = chA
    THEN <<W("SOL_A", HIGH), W("SOL_B", LOW), W("LED", HIGH)>>
    ELSE IF state = chB
      THEN <<W("SOL_A", LOW), W("SOL_B", HIGH), W("LED", HIGH)>>
      ELSE <<W("SOL_A", LOW), W("SOL_B", LOW)>>

ApplyOutputsOps(state) ==
  IF state = chA
    THEN <<W("SOL_A", HIGH), W("SOL_B", LOW), W("LED", HIGH)>>
    ELSE IF state = chB
      THEN <<W("SOL_A", LOW), W("SOL_B", HIGH), W("LED", HIGH)>>
      ELSE <<W("SOL_A", LOW), W("SOL_B", LOW), W("LED", LOW)>>

\* pulseValve() without the writes that end the pulse
PulseValveOps_NoRelease(p) ==
  <<W("LED", HIGH)>>
  \o (IF p = chA THEN <<W("SOL_A", HIGH), W("SOL_B", LOW)>>
                 ELSE <<W("SOL_A", LOW), W("SOL_B", HIGH)>>)
  \o <<D(PULSE_MS)>>

PulseValveOps(p) ==
  <<W("LED", HIGH)>>
  \o (IF p = chA THEN <<W("SOL_A", HIGH), W("SOL_B", LOW)>>
                 ELSE <<W("SOL_A", LOW), W("SOL_B", HIGH)>>)
  \o <<D(PULSE_MS)>>
  \o <<W("SOL_A", LOW), W("SOL_B", LOW), W("LED", LOW)>>

\* setValve() of the cycle sketch whose case 'C' does not release the coils
CycleSetValveOps_NoRelease(p) ==
  CASE p = chA -> <<W("SOL_B", LOW), D(SETTLE_MS), W("SOL_A", HIGH), W("LED", HIGH),
                    W("STATE", chA)>>
    [] p = chB -> <<W("SOL_A", LOW), D(SETTLE_MS), W("SOL_B", HIGH), W("LED", HIGH),
                    W("STATE", chB)>>
    [] p = chC -> <<W("LED", LOW), W("STATE", chC)>>
    [] OTHER -> <<>>

\* setValve() of the cycle sketch; W("STATE", x) is the assignment currentState = x
CycleSetValveOps(p) ==
  CASE p = chA -> <<W("SOL_B", LOW), D(SETTLE_MS), W("SOL_A", HIGH), W("LED", HIGH),
                    W("STATE", chA)>>
    [] p = chB -> <<W("SOL_A", LOW), D(SETTLE_MS), W("SOL_B", HIGH), W("LED", HIGH),
                    W("STATE", chB)>>
    [] p = chC -> <<W("SOL_A", LOW), W("SOL_B", LOW), W("LED", LOW), W("STATE", chC)>>
    [] OTHER -> <<>>

CycleSetupOps == <<W("SOL_A", LOW), W("SOL_B", LOW), W("LED", LOW)>>

\* the output driver the EEPROM sketches call: pulseValve / applyOutputs
DriverOps(v, p) == IF v = "bi" THEN PulseValveOps(p) ELSE ApplyOutputsOps(p)

\* setValve() of the EEPROM sketches with the EEPROM write after the outputs
SaveAfterApplyOps(v, cur, p) ==
  <<W("STATE", p)>> \o DriverOps(v, p)
  \o (IF p # cur THEN <<W("EEPROM", p)>> ELSE <<>>)

\* setValve() of the EEPROM sketches saving the old state instead of the new
SaveThenApplyOps_WritesOld(v, cur, p) ==
  (IF p # cur THEN <<W("EEPROM", cur)>> ELSE <<>>)
  \o <<W("STATE", p)>> \o DriverOps(v, p)

\* setValve() of the EEPROM sketches without the test pos != currentState
SaveThenApplyOps_AlwaysWrite(v, cur, p) ==
  <<W("EEPROM", p), W("STATE", p)>> \o DriverOps(v, p)

\* setValve() of the EEPROM sketches up to the call of the output driver;
\* W("EEPROM", x) is EEPROM.update(EEPROM_ADDR, x)
SaveThenApplyOps(v, cur, p) ==
  (IF p # cur THEN <<W("EEPROM", p)>> ELSE <<>>)
  \o <<W("STATE", p)>> \o DriverOps(v, p)

\* setValve() that returns at once while the guard window is open
SetValveOps_GuardReject(v, cur, p) ==
  IF Guarded(v) /\ millis - lastChangeTime < EMI_GUARD_MS THEN <<>>
  ELSE IF v = "cycle" THEN CycleSetValveOps(p) ELSE SaveThenApplyOps(v, cur, p)

SetValveOps(v, cur, p) ==
  IF v = "cycle" THEN CycleSetValveOps(p) ELSE SaveThenApplyOps(v, cur, p)

----------------------------------------------------------------------------
\* Power-on / reset state of the RAM and of the pins

AllReleased == [k \in 0..2 |-> HIGH]
NoEdges == [k \in 0..2 |-> None]
NotHeld == [k \in 0..2 |-> "no"]
ZeroTimes == [k \in 0..2 |-> 0]

PowerOn(v) ==
  /\ pc' = "setup"
  /\ millis' = 0
  /\ currentState' = InitialState(v)
  /\ solA' = LOW /\ solB' = LOW /\ led' = LOW
  /\ btnPrev' = AllReleased
  /\ btnLastPress' = ZeroTimes
  /\ lastChangeTime' = 0
  /\ now' = 0 /\ i' = 0 /\ reading' = HIGH
  /\ cmd' = NoByte /\ pos' = InitialState(v) /\ ret' = "boot"
  /\ ops' = <<>>
  /\ tx' = <<>>
  /\ nCmd' = 0
  /\ commitTime' = None
  /\ tr' = NoTr
  /\ acceptAt' = NoEdges
  /\ rejectAt' = NoEdges
  /\ held' = NotHeld
  /\ nReady' = 0

InitBoard ==
  /\ variant \in Variants
  /\ eeprom \in (IF Persisting(variant) THEN CellBytes ELSE {NoCell})
  /\ pc = "setup"
  /\ millis = 0
  /\ currentState = InitialState(variant)
  /\ solA = LOW /\ solB = LOW /\ led = LOW
  /\ btnPrev = AllReleased
  /\ btnLastPress = ZeroTimes
  /\ lastChangeTime = 0
  /\ now = 0 /\ i = 0 /\ reading = HIGH
  /\ cmd = NoByte /\ pos = InitialState(variant) /\ ret = "boot"
  /\ ops = <<>>
  /\ tx = <<>>
  /\ nCmd = 0
  /\ lastCommitted = None
  /\ commitTime = None
  /\ tr = NoTr
  /\ acceptAt = NoEdges
  /\ rejectAt = NoEdges
  /\ held = NotHeld
  /\ nReady = 0
  /\ rst = [kind |-> "power", from |-> None, to |-> None, wrote |-> FALSE]

Init == InitBoard /\ watched = {} /\ follow = {}

\* the same board with the ignored edges recorded of the channel the for loop
\* of checkButtons() visits last
InitEdges == InitBoard /\ watched = {NumBtn(variant) - 1} /\ follow = {}

\* the same board with the presses followed that the channel visited last
\* makes while the guard window is open
InitHeld == InitBoard /\ watched = {} /\ follow = {NumBtn(variant) - 1}

\* A reset (brown-out, watchdog-less power glitch, DTR) at any instant: RAM is
\* re-initialised, the pins float and the relays drop, the EEPROM cell is kept.
Reset ==
  /\ PowerOn(variant)
  /\ UNCHANGED <<variant, eeprom, watched, follow>>
  /\ rst' = IF pc = "loop"
              THEN [kind |-> "boundary", from |-> currentState,
                    to |-> currentState, wrote |-> FALSE]
              ELSE IF tr.on
                THEN [kind |-> "mid", from |-> tr.from, to |-> pos, wrote |-> tr.wrote]
                ELSE [kind |-> "other", from |-> None, to |-> None, wrote |-> FALSE]
  /\ lastCommitted' = IF pc = "loop" THEN lastCommitted ELSE None

----------------------------------------------------------------------------
\* setup()

Setup ==
  /\ pc = "setup"
  /\ currentState' = IF Persisting(variant)
                       THEN LoadSavedState(variant, eeprom)
                       ELSE currentState
  /\ ops' = IF variant = "cycle" THEN CycleSetupOps
            ELSE DriverOps(variant, LoadSavedState(variant, eeprom))
  /\ ret' = "boot"
  /\ pc' = "drive"
  /\ UNCHANGED <<variant, millis, pins, eeprom, btnPrev, btnLastPress,
                 lastChangeTime, now, i, reading, cmd, pos, tx, nCmd, hist>>

\* the end of setup() printing READY twice
Ready_Twice ==
  /\ pc = "drive" /\ ops = <<>> /\ ret = "boot"
  /\ tx' = tx \o << <<"READY">>, <<"READY">> >>
  /\ nReady' = nReady + 2
  /\ pc' = "loop"
  /\ UNCHANGED <<variant, millis, pins, ram, eeprom, locals, ops, nCmd,
                 lastCommitted, commitTime, tr, rst, acceptAt, rejectAt,
                 watched, follow, held>>

\* Serial.println("READY") at the end of setup()
Ready ==
  /\ pc = "drive" /\ ops = <<>> /\ ret = "boot"
  /\ tx' = Append(tx, <<"READY">>)
  /\ nReady' = nReady + 1
  /\ pc' = "loop"
  /\ UNCHANGED <<variant, millis, pins, ram, eeprom, locals, ops, nCmd,
                 lastCommitted, commitTime, tr, rst, acceptAt, rejectAt,
                 watched, follow, held>>

----------------------------------------------------------------------------
\* history: forget the edges sampled more than DEBOUNCE_MS before time t
Aged(e, t) ==
  [k \in 0..2 |-> IF e[k] # None /\ t - e[k] > DEBOUNCE_MS THEN None ELSE e[k]]

\* history: a followed channel in stage h, whose stored level is prev, is
\* sampled at level r, in a guard pass or in a polling pass
Sampled(h, inGuard, prev, r) ==
  IF inGuard /\ prev = HIGH /\ r = LOW THEN "pressed"
  ELSE IF r = LOW THEN (IF ~inGuard /\ h = "pressed" THEN "held" ELSE h)
  ELSE IF h = "held" THEN "released"
  ELSE IF h = "pressed" THEN "no" ELSE h

\* history: the transition a caller of setValve starts
Begin ==
  [on |-> TRUE, from |-> currentState, wrote |-> FALSE, saved |-> FALSE,
   pins0 |-> <<solA, solB, led>>, cell0 |-> eeprom]

\* One statement of the running call: digitalWrite, delay, EEPROM.update or
\* the assignment to currentState
ExecOp ==
  /\ pc = "drive" /\ ops # <<>>
  /\ LET op == Head(ops) IN
       /\ solA' = IF op[1] = "SOL_A" THEN op[2] ELSE solA
       /\ solB' = IF op[1] = "SOL_B" THEN op[2] ELSE solB
       /\ led' = IF op[1] = "LED" THEN op[2] ELSE led
       /\ millis' = IF op[1] = "delay" THEN millis + op[2] ELSE millis
       /\ eeprom' = IF op[1] = "EEPROM" THEN op[2] ELSE eeprom
       /\ currentState' = IF op[1] = "STATE" THEN op[2] ELSE currentState
       /\ tr' = IF tr.on /\ op[1] \in {"SOL_A", "SOL_B"}
                  THEN [tr EXCEPT !.wrote = TRUE]
                  ELSE IF tr.on /\ op[1] = "EEPROM"
                    THEN [tr EXCEPT !.saved = TRUE] ELSE tr
       /\ rejectAt' = IF op[1] = "delay" THEN Aged(rejectAt, millis + op[2])
                       ELSE rejectAt
  /\ ops' = Tail(ops)
  /\ UNCHANGED <<variant, pc, btnPrev, btnLastPress, lastChangeTime, locals, tx,
                 nCmd, lastCommitted, commitTime, rst, acceptAt, nReady,
                 watched, follow, held>>

----------------------------------------------------------------------------
\* setValve(pos)

\* entry of setValve(pos)
SetValve ==
  /\ pc = "setValve"
  /\ ops' = SetValveOps(variant, currentState, pos)
  /\ pc' = "drive"
  /\ UNCHANGED <<variant, millis, pins, ram, eeprom, locals, tx, nCmd, hist>>

\* end of setValve: lastChangeTime = millis() in the guarded sketches
SetValveEnd ==
  /\ pc = "drive" /\ ops = <<>> /\ ret \in {"btn", "cmd"}
  /\ lastChangeTime' = IF Guarded(variant) THEN millis ELSE lastChangeTime
  /\ lastCommitted' = pos
  /\ commitTime' = millis
  /\ tr' = NoTr
  /\ pc' = IF ret = "btn" THEN "btnDone" ELSE "cmdDone"
  /\ UNCHANGED <<variant, millis, currentState, pins, eeprom, btnPrev,
                 btnLastPress, locals, ops, tx, nCmd, rst, acceptAt,
                 rejectAt, nReady, watched, follow, held>>

----------------------------------------------------------------------------
\* checkButtons() / checkButton()

\* the EMI guard test with <= in place of <
InGuard_Inclusive(t, last) == t - last <= EMI_GUARD_MS

\* the EMI guard test of checkButtons()
InGuard(t, last) == t - last < EMI_GUARD_MS

\* start of a pass of loop(): checkButtons() reads millis() and tests the guard
CheckButtonsGuard ==
  /\ pc = "loop" /\ Guarded(variant)
  /\ tx' = <<>>
  /\ now' = millis
  /\ rst' = NoRst
  /\ IF InGuard(millis, lastChangeTime)
       THEN /\ \E r \in [0..2 -> BOOLEAN] :
                 /\ btnPrev' = [k \in 0..2 |-> IF k < NumBtn(variant) THEN r[k]
                                                ELSE btnPrev[k]]
                 /\ rejectAt' = [k \in 0..2 |->
                                   IF k \in watched /\ r[k] = LOW
                                        /\ btnPrev[k] = HIGH
                                     THEN millis ELSE rejectAt[k]]
                 /\ held' = [k \in 0..2 |->
                               IF k \in follow
                                 THEN Sampled(held[k], commitTime # None, btnPrev[k],
                                              r[k])
                                 ELSE held[k]]
            /\ pc' = "serial"
            /\ i' = i
       ELSE /\ i' = 0
            /\ pc' = "poll"
            /\ btnPrev' = btnPrev
            /\ rejectAt' = rejectAt
            /\ held' = held
  /\ UNCHANGED <<variant, millis, currentState, pins, eeprom, btnLastPress,
                 lastChangeTime, reading, cmd, pos, ret, ops, nCmd,
                 lastCommitted, commitTime, tr, acceptAt, nReady, watched,
                 follow>>

\* start of a pass of loop() in the cycle sketch: no guard
CheckButtonBegin ==
  /\ pc = "loop" /\ variant = "cycle"
  /\ tx' = <<>>
  /\ now' = millis
  /\ i' = 0
  /\ rst' = NoRst
  /\ pc' = "poll"
  /\ UNCHANGED <<variant, millis, pins, ram, eeprom, reading, cmd, pos, ret,
                 ops, nCmd, lastCommitted, commitTime, tr, acceptAt,
                 rejectAt, nReady, watched, follow, held>>

\* the edge test of checkButtons() without the debounce term
EdgeAccepted_NoDebounce(level, prev, t, last) == level = LOW /\ prev = HIGH

AfterChannel(k) == IF k + 1 < NumBtn(variant) THEN "poll" ELSE "serial"

EdgeAccepted(level, prev, t, last) ==
  level = LOW /\ prev = HIGH /\ (t - last > DEBOUNCE_MS)

\* one channel of the for loop: digitalRead and the edge / debounce test
Poll ==
  /\ pc = "poll"
  /\ \E r \in BOOLEAN :
       /\ reading' = r
       /\ IF EdgeAccepted(r, btnPrev[i], now, btnLastPress[i])
            THEN /\ btnLastPress' = [btnLastPress EXCEPT ![i] = now]
                 /\ pos' = IF variant = "cycle" THEN NextState(currentState)
                           ELSE BTN_TARGETS(variant)[i + 1]
                 /\ ret' = "btn"
                 /\ pc' = "setValve"
                 /\ tr' = Begin
                 /\ acceptAt' = [acceptAt EXCEPT ![i] = millis]
                 /\ UNCHANGED <<btnPrev, i, rejectAt, held>>
            ELSE /\ btnPrev' = [btnPrev EXCEPT ![i] = r]
                 /\ i' = i + 1
                 /\ pc' = AfterChannel(i)
                 /\ rejectAt' = IF i \in watched /\ r = LOW /\ btnPrev[i] = HIGH
                                  THEN [rejectAt EXCEPT ![i] = millis]
                                  ELSE rejectAt
                 /\ held' = IF i \in follow
                              THEN [held EXCEPT ![i] =
                                      Sampled(held[i], FALSE, btnPrev[i], r)]
                              ELSE held
                 /\ UNCHANGED <<btnLastPress, pos, ret, tr, acceptAt>>
  /\ UNCHANGED <<variant, millis, currentState, pins, eeprom, lastChangeTime,
                 now, cmd, ops, tx, nCmd, lastCommitted, commitTime, rst,
                 nReady, watched, follow>>

\* after setValve returns into checkButtons: print BTN:<state>, store the level
BtnDone ==
  /\ pc = "btnDone"
  /\ tx' = Append(tx, <<"BTN", currentState>>)
  /\ btnPrev' = [btnPrev EXCEPT ![i] = reading]
  /\ i' = i + 1
  /\ pc' = AfterChannel(i)
  /\ held' = [held EXCEPT ![i] = "no"]
  /\ UNCHANGED <<variant, millis, currentState, pins, eeprom, btnLastPress,
                 lastChangeTime, now, reading, cmd, pos, ret, ops, nCmd,
                 lastCommitted, commitTime, tr, rst, acceptAt, rejectAt, nReady,
                 watched, follow>>

----------------------------------------------------------------------------
\* the serial half of loop()

SerialIdle ==
  /\ pc = "serial"
  /\ cmd' = NoByte
  /\ pc' = "loop"
  /\ UNCHANGED <<variant, millis, pins, ram, eeprom, now, i, reading, pos, ret,
                 ops, tx, nCmd, hist>>

\* the valve cases of loop() dropping the byte while the guard window is open
SerialValve_Guarded ==
  /\ pc = "serial"
  /\ \E b \in RxBytes :
       /\ b \in Legal(variant)
       /\ nCmd < MaxCmds
       /\ cmd' = b
       /\ pos' = IF InGuard(millis, lastChangeTime) THEN pos ELSE b
  /\ ret' = IF InGuard(millis, lastChangeTime) THEN ret ELSE "cmd"
  /\ nCmd' = nCmd + 1
  /\ pc' = IF InGuard(millis, lastChangeTime) THEN "loop" ELSE "setValve"
  /\ tr' = IF InGuard(millis, lastChangeTime) THEN tr ELSE Begin
  /\ UNCHANGED <<variant, millis, pins, ram, eeprom, now, i, reading, ops, tx,
                 lastCommitted, commitTime, rst, acceptAt, rejectAt, nReady,
                 watched, follow, held>>

SerialValve ==
  /\ pc = "serial"
  /\ \E b \in RxBytes :
       /\ b \in Legal(variant)
       /\ nCmd < MaxCmds
       /\ cmd' = b
       /\ pos' = b
  /\ ret' = "cmd"
  /\ nCmd' = nCmd + 1
  /\ pc' = "setValve"
  /\ tr' = Begin
  /\ UNCHANGED <<variant, millis, pins, ram, eeprom, now, i, reading, ops, tx,
                 lastCommitted, commitTime, rst, acceptAt, rejectAt, nReady,
                 watched, follow, held>>

\* case '?' that also restarts the guard window
SerialStatus_OpensGuard ==
  /\ pc = "serial"
  /\ cmd' = chQ
  /\ tx' = Append(tx, <<"STATE", currentState>>)
  /\ lastChangeTime' = millis
  /\ pc' = "loop"
  /\ UNCHANGED <<variant, millis, pins, currentState, btnPrev, btnLastPress,
                 eeprom, now, i, reading, pos, ret, ops, nCmd, hist>>

SerialStatus ==
  /\ pc = "serial"
  /\ cmd' = chQ
  /\ tx' = Append(tx, <<"STATE", currentState>>)
  /\ pc' = "loop"
  /\ UNCHANGED <<variant, millis, pins, ram, eeprom, now, i, reading, pos, ret,
                 ops, nCmd, hist>>

SerialOther ==
  /\ pc = "serial"
  /\ \E b \in RxBytes :
       /\ b \notin Legal(variant) /\ b # chQ
       /\ cmd' = b
  /\ tx' = IF HasDefaultCase(variant) THEN Append(tx, <<"ERR:UNKNOWN">>) ELSE tx
  /\ pc' = "loop"
  /\ UNCHANGED <<variant, millis, pins, ram, eeprom, now, i, reading, pos, ret,
                 ops, nCmd, hist>>

\* the return into loop() printing a BTN line next to the OK line
CmdDone_EchoBtn ==
  /\ pc = "cmdDone"
  /\ tx' = tx \o << <<"OK", currentState>>, <<"BTN", currentState>> >>
  /\ pc' = "loop"
  /\ UNCHANGED <<variant, millis, pins, ram, eeprom, locals, ops, nCmd, hist>>

\* after setValve returns into loop(): print OK:<state>
CmdDone ==
  /\ pc = "cmdDone"
  /\ tx' = Append(tx, <<"OK", currentState>>)
  /\ pc' = "loop"
  /\ UNCHANGED <<variant, millis, pins, ram, eeprom, locals, ops, nCmd, hist>>

----------------------------------------------------------------------------
\* time passing between two passes of loop()

Tick ==
  /\ pc = "loop"
  /\ \E dt \in Steps :
       /\ millis + dt <= MaxTime
       /\ millis' = millis + dt
       /\ rejectAt' = Aged(rejectAt, millis + dt)
  /\ UNCHANGED <<variant, pc, pins, ram, eeprom, locals, ops, tx, nCmd,
                 lastCommitted, commitTime, tr, rst, acceptAt, nReady,
                 watched, follow, held>>

Next ==
  \/ Reset
  \/ Setup
  \/ Ready
  \/ ExecOp
  \/ SetValve
  \/ SetValveEnd
  \/ CheckButtonsGuard
  \/ CheckButtonBegin
  \/ Poll
  \/ BtnDone
  \/ SerialIdle
  \/ SerialValve
  \/ SerialStatus
  \/ SerialOther
  \/ CmdDone
  \/ Tick

Spec == Init /\ [][Next]_vars

SpecEdges == InitEdges /\ [][Next]_vars

SpecHeld == InitHeld /\ [][Next]_vars

----------------------------------------------------------------------------
\* Sanity: types and the facts the properties below rely on

TypeOK ==
  /\ variant \in Variants
  /\ pc \in {"setup", "drive", "loop", "poll", "serial", "setValve",
             "btnDone", "cmdDone"}
  /\ millis \in Nat
  /\ lastChangeTime \in 0..millis
  /\ \A k \in 0..2 : btnLastPress[k] \in 0..millis /\ btnPrev[k] \in BOOLEAN
  /\ now \in 0..millis
  /\ i \in 0..NumBtn(variant)
  /\ Len(tx) <= 4
  /\ nCmd \in 0..MaxCmds
  /\ commitTime \in {None} \cup 0..millis

\* the first pass of loop() has not started since the last boot
JustBooted == pc = "loop" /\ rst.kind # "none"

----------------------------------------------------------------------------
\* C1: in every sketch, at no instant (also not between two pin writes of one
\* transition, nor during a delay) are coil A and coil B both energized.
C1_NeverBothCoils == ~(solA = HIGH /\ solB = HIGH)

\* C2: in every sketch, after a reset taken at a boundary between two passes
\* of loop(), the controller boots into the state last committed before it.
C2_BootRestoresCommitted ==
  (JustBooted /\ rst.kind = "boundary" /\ lastCommitted # None)
    => currentState = lastCommitted

\* the default state the specification names per variant
C3_Default(v) == IF v = "bi" THEN chA ELSE chC

\* C3: after every boot the state is the byte of the persisted cell if that
\* byte is a legal letter of the sketch, otherwise the default (Center for the
\* tristate sketches, A for the bistable one); and the current state is never
\* outside the legal set.
C3_BootStateLegalOrDefault ==
  /\ JustBooted =>
       currentState = (IF eeprom \in Legal(variant) THEN eeprom
                       ELSE C3_Default(variant))
  /\ currentState \in Legal(variant)

C3_Witness ==
  /\ JustBooted /\ variant = "tri3" /\ rst.kind = "boundary"
  /\ eeprom \notin Legal(variant) /\ currentState = chC

\* C4: in the sketches that have a persisted cell, a state-changing transition
\* writes the target to the cell before any coil pin is written; so a reset
\* inside the transition boots into the target once a coil write has happened,
\* and into the old state or the target otherwise.
C4_WriteBeforeOutput ==
  /\ (Persisting(variant) /\ tr.on /\ tr.wrote /\ tr.from # pos) => eeprom = pos
  /\ (Persisting(variant) /\ JustBooted /\ rst.kind = "mid" /\ rst.from # rst.to) =>
       /\ rst.wrote => currentState = rst.to
       /\ currentState \in {rst.from, rst.to}

C4_Witness ==
  /\ variant = "tri3" /\ JustBooted /\ rst.kind = "mid"
  /\ rst.wrote /\ rst.from = chB /\ rst.to = chA /\ currentState = chA

\* C5: in every sketch a received byte that is neither a legal state letter
\* nor '?' is answered with exactly ERR:UNKNOWN and changes neither the state,
\* the outputs, the persisted cell nor the guard window.
C5_UnknownByteRejected ==
  [][(pc = "serial" /\ cmd' \notin (Legal(variant) \cup {chQ, NoByte}))
       => /\ tx' = Append(tx, <<"ERR:UNKNOWN">>)
          /\ UNCHANGED <<currentState, solA, solB, led, eeprom, lastChangeTime>>]_vars

\* C6: the bistable sketch answers the byte 'C' with ERR:UNKNOWN and performs
\* no state change.
C6_BistableRejectsC ==
  [][(variant = "bi" /\ pc = "serial" /\ cmd' = chC)
       => /\ tx' = Append(tx, <<"ERR:UNKNOWN">>)
          /\ UNCHANGED <<currentState, solA, solB, led, eeprom, lastChangeTime>>]_vars

\* the lines printed so far in this pass are all button notifications
C7_OnlyBtnLines(lines) == \A j \in 1..Len(lines) : lines[j][1] = "BTN"

\* C7: a received legal letter X always enters setValve(X), whatever the
\* state and whether or not the guard window is open, and when the call
\* returns the state is X and the one response of the command is OK:X.
C7_CommandAcknowledged ==
  [][/\ (pc = "serial" /\ cmd' \in Legal(variant))
          => (pc' = "setValve" /\ pos' = cmd' /\ ret' = "cmd")
     /\ (pc = "cmdDone" /\ pc' = "loop")
          => /\ cmd \in Legal(variant)
             /\ currentState = cmd /\ currentState' = cmd
             /\ C7_OnlyBtnLines(tx)
             /\ tx' = Append(tx, <<"OK", cmd>>)]_vars

C7_Witness ==
  /\ variant = "tri3" /\ pc = "loop" /\ nCmd = 2 /\ millis < EMI_GUARD_MS
  /\ cmd = chB /\ currentState = chB /\ tx = << <<"OK", chB>> >>

\* C8: a received '?' prints STATE:<current state> and changes nothing else:
\* state, coils, indicator, persisted cell, guard window start, debounce state.
C8_StatusNoEffect ==
  [][(pc = "serial" /\ cmd' = chQ)
       => /\ tx' = Append(tx, <<"STATE", currentState>>)
          /\ UNCHANGED <<currentState, solA, solB, led, eeprom, lastChangeTime,
                         btnPrev, btnLastPress>>]_vars

C8_Witness ==
  /\ pc = "loop" /\ cmd = chQ /\ variant = "tri3" /\ solA = HIGH
  /\ millis > lastChangeTime /\ lastChangeTime > 0
  /\ tx = << <<"STATE", chA>> >>

\* C9: in every sketch a button edge sampled less than guardInterval after a
\* committed transition is ignored, also an edge on another channel sampled
\* in the same pass right after an earlier channel committed a transition.
C9_EdgeInGuardIgnored ==
  (pc = "setValve" /\ ret = "btn")
    => (commitTime = None \/ millis - commitTime >= EMI_GUARD_MS)

\* this step samples channel k and finds a released-to-pressed edge
C10_Sampled(k) ==
  \/ pc = "poll" /\ i = k /\ reading' = LOW /\ btnPrev[k] = HIGH /\ pc' # "setup"
  \/ pc = "loop" /\ pc' = "serial" /\ btnPrev[k] = HIGH /\ btnPrev'[k] = LOW

C10_Target(k) ==
  IF variant = "cycle" THEN NextState(currentState) ELSE BTN_TARGETS(variant)[k + 1]

C10_Accepted(k) == pc' = "setValve" /\ ret' = "btn" /\ pos' = C10_Target(k)

\* C10 as stated: a released-to-pressed edge sampled with no guard window open
\* (400 ms since the last committed transition, or no transition since boot)
\* and more than 200 ms after the previous accepted edge of its channel (or
\* with none since boot) calls setValve(target of the channel) in that pass.
C10_EdgeAccepted_SinceBootFree ==
  [][\A k \in 0..(NumBtn(variant) - 1) :
       ( /\ C10_Sampled(k)
         /\ (commitTime = None \/ millis - commitTime >= EMI_GUARD_MS)
         /\ (btnLastPress[k] = 0 \/ millis - btnLastPress[k] > DEBOUNCE_MS) )
       => C10_Accepted(k)]_vars

\* C10 with boot (millis 0) counted as a transition and as an accepted edge:
\* an edge sampled at least 400 ms after the later of boot and the last
\* committed transition, and more than 200 ms after the later of boot and the
\* previous accepted edge of its channel, calls setValve(target) in that pass.
C10_EdgeAccepted ==
  [][\A k \in 0..(NumBtn(variant) - 1) :
       ( /\ C10_Sampled(k)
         /\ millis - (IF commitTime = None THEN 0 ELSE commitTime) >= EMI_GUARD_MS
         /\ millis - btnLastPress[k] > DEBOUNCE_MS )
       => C10_Accepted(k)]_vars

C10_Witness ==
  /\ variant = "tri3" /\ pc = "setValve" /\ ret = "btn" /\ i = 2
  /\ commitTime # None /\ millis - commitTime >= EMI_GUARD_MS
  /\ pos = chC

\* an edge of channel k, accepted or ignored, was sampled at most DEBOUNCE_MS ago
C11_RecentEdge(k) ==
  \/ rejectAt[k] # None
  \/ acceptAt[k] # None /\ millis - acceptAt[k] <= DEBOUNCE_MS

\* an accepted edge of channel k was sampled at most DEBOUNCE_MS ago
C11_RecentAccept(k) == acceptAt[k] # None /\ millis - acceptAt[k] <= DEBOUNCE_MS

BtnLines(lines) == Cardinality({j \in 1..Len(lines) : lines[j][1] = "BTN"})

\* C11 as stated: of two released-to-pressed edges of one channel sampled no
\* more than 200 ms apart the second is never accepted.
C11_SecondNeverAccepted ==
  [][\A k \in watched :
       (C10_Sampled(k) /\ C11_RecentEdge(k)) => pc' # "setValve"]_vars

\* C11 for the pair as a whole: of two released-to-pressed edges of one
\* channel sampled no more than 200 ms apart at most one is accepted (the
\* second only if the first was ignored), and a BTN line is printed only on
\* return from the setValve call of an accepted edge, one line per call.
C11_NotBothAccepted ==
  [][/\ \A k \in 0..(NumBtn(variant) - 1) :
          (C10_Sampled(k) /\ C11_RecentAccept(k)) => pc' # "setValve"
     /\ pc' = "btnDone" => (ret = "btn" /\ acceptAt[i] # None)
     /\ BtnLines(tx') > BtnLines(tx)
          => (pc = "btnDone" /\ BtnLines(tx') = BtnLines(tx) + 1)]_vars

\* the first edge of a pair was accepted, the second ignored
C11_Witness ==
  \E k \in watched :
    /\ acceptAt[k] # None /\ rejectAt[k] # None
    /\ rejectAt[k] > acceptAt[k] /\ rejectAt[k] - acceptAt[k] <= DEBOUNCE_MS

\* the cyclic order Center -> A -> B -> Center
C12_Succ(s) == CASE s = chC -> chA [] s = chA -> chB [] s = chB -> chC

\* C12: in the cycle sketch an accepted button press calls setValve with the
\* successor of the current state in the order Center -> A -> B -> Center, and
\* when the call returns the state is that successor of the state the press
\* found, whether that state came from boot, a button or a serial command.
C12_CycleStep ==
  (variant = "cycle" /\ ret = "btn") =>
    /\ pc = "setValve" => pos = C12_Succ(currentState)
    /\ (pc = "drive" /\ ops = <<>>) => currentState = C12_Succ(tr.from)
    /\ pc = "btnDone" => currentState = pos

\* a press that finds state B, set by a serial command, ends in Center
C12_Witness ==
  /\ variant = "cycle" /\ ret = "btn" /\ pc = "drive" /\ ops = <<>>
  /\ tr.from = chB /\ currentState = chC /\ nCmd = 1 /\ millis < 2 * DEBOUNCE_MS

\* C13: the setValve call of an accepted button edge returns to the print of
\* exactly one line BTN:<s>, s being the argument of the call and the state it
\* left; no other step prints a BTN line, so the setValve call of a serial
\* command, which returns to the print of OK, never does.
C13_BtnLinePerAccept ==
  [][/\ (pc = "drive" /\ ops = <<>> /\ ret = "btn" /\ pc' # "setup")
          => pc' = "btnDone"
     /\ (pc = "btnDone" /\ pc' # "setup")
          => (currentState = pos /\ tx' = Append(tx, <<"BTN", pos>>))
     /\ pc # "btnDone" => BtnLines(tx') <= BtnLines(tx)
     /\ (pc = "drive" /\ ops = <<>> /\ ret = "cmd" /\ pc' # "setup")
          => pc' = "cmdDone"]_vars

C13_Witness ==
  /\ variant = "bi" /\ pc = "serial" /\ currentState = chB /\ tr = NoTr
  /\ lastCommitted = chB /\ tx = << <<"BTN", chB>> >>

\* setup() has not returned yet
C14_Booting == pc = "setup" \/ (pc = "drive" /\ ret = "boot")

\* C14: after every boot or reset READY is printed exactly once, at the end
\* of setup(); until then no line has been printed and no byte has been read
\* from Serial, and READY is the only line at the first pass of loop().
C14_ReadyOnceFirst ==
  /\ nReady <= 1
  /\ C14_Booting <=> nReady = 0
  /\ C14_Booting => (tx = <<>> /\ cmd = NoByte /\ nCmd = 0)
  /\ JustBooted => tx = << <<"READY">> >>

\* the boot after a reset that interrupted a transition
C14_Witness ==
  /\ JustBooted /\ rst.kind = "mid" /\ rst.wrote
  /\ nReady = 1 /\ tx = << <<"READY">> >>

\* the statements the setValve call in flight has executed so far
C15_Done ==
  LET all == SetValveOps(variant, tr.from, pos)
  IN SubSeq(all, 1, Len(all) - Len(ops))

C15_Opposite(pin) == IF pin = "SOL_A" THEN "SOL_B" ELSE "SOL_A"

\* C15: in every sketch, when a transition is about to switch a coil on, it
\* has already written the opposite coil off and after that waited a delay.
C15_OffSettleOn ==
  (pc = "drive" /\ tr.on /\ ops # <<>> /\ Head(ops)[1] \in {"SOL_A", "SOL_B"}
     /\ Head(ops)[2] = HIGH)
    => \E j, k \in 1..Len(C15_Done) :
         /\ j < k
         /\ C15_Done[j][1] = C15_Opposite(Head(ops)[1]) /\ C15_Done[j][2] = LOW
         /\ C15_Done[k][1] = "delay"

\* C16: in every sketch, between two passes of loop() the LED is on exactly
\* when coil A or coil B is energized.
C16_LedMirrorsCoils ==
  pc = "loop" => (led = HIGH <=> (solA = HIGH \/ solB = HIGH))

C16_Witness ==
  /\ variant = "tri3" /\ pc = "loop" /\ nCmd = 2 /\ lastCommitted = chC
  /\ led = LOW /\ solA = LOW /\ solB = LOW /\ eeprom = chC

\* C17: in the cycle and the 3-button sketch, between two passes of loop()
\* coil A is energized exactly in state A and coil B exactly in state B (in
\* Center neither is), after any boots, serial commands and button presses.
C17_CoilsMatchState ==
  (pc = "loop" /\ variant \in {"cycle", "tri3"}) =>
    /\ solA = HIGH <=> currentState = chA
    /\ solB = HIGH <=> currentState = chB

\* the boot after a reset restores the coil of the saved state
C17_Witness ==
  /\ variant = "tri3" /\ JustBooted /\ rst.kind = "boundary"
  /\ currentState = chA /\ solA = HIGH /\ solB = LOW

\* a transition has been committed since the last boot and none is in flight
C18_AfterCommit == Persisting(variant) /\ commitTime # None /\ ~tr.on

\* C18 as stated: in the EEPROM sketches, after any committed transition the
\* EEPROM cell holds the letter of the current state.
C18_CellEqualsState == C18_AfterCommit => eeprom = currentState

\* C18 with the unset cell: in the EEPROM sketches, after any committed
\* transition the EEPROM cell holds the letter of the current state, or it
\* still holds a byte outside the legal set while the current state is the
\* default of the sketch.
C18_CellEqualsStateOrUnset ==
  C18_AfterCommit =>
    \/ eeprom = currentState
    \/ eeprom \notin Legal(variant) /\ currentState = C3_Default(variant)

\* a committed transition to the default state left the erased cell as it was
C18_Witness ==
  /\ variant = "tri3" /\ pc = "loop" /\ commitTime # None /\ ~tr.on
  /\ lastCommitted = chC /\ currentState = chC /\ eeprom \notin Legal(variant)

\* C19: in the EEPROM sketches, when setValve(S) has returned, S is a legal
\* state and loadSavedState() applied to the cell returns S, whatever the cell
\* held before; and a boot that follows the transition starts in S.
C19_SaveLoadRoundTrip ==
  Persisting(variant) =>
    /\ pc \in {"btnDone", "cmdDone"}
         => (pos \in Legal(variant) /\ LoadSavedState(variant, eeprom) = pos)
    /\ (JustBooted /\ rst.kind = "boundary" /\ lastCommitted # None)
         => currentState = lastCommitted

C19_Witness ==
  /\ variant = "bi" /\ JustBooted /\ rst.kind = "boundary"
  /\ lastCommitted = chB /\ currentState = chB /\ eeprom = chB

\* C20: when the byte read is the letter of the current state S, the call
\* setValve(S) returns with the state, both coils, the LED and the EEPROM
\* cell as they were at the call and has issued no EEPROM write, and the
\* response printed is OK:S with nothing else changed.
C20_Idempotent ==
  [][/\ ( /\ pc = "drive" /\ ops = <<>> /\ ret = "cmd" /\ pc' = "cmdDone"
          /\ tr.on /\ tr.from = pos )
          => /\ currentState' = pos
             /\ <<solA', solB', led'>> = tr.pins0
             /\ eeprom' = tr.cell0
             /\ ~tr.saved
     /\ (pc = "cmdDone" /\ pc' = "loop")
          => /\ tx' = Append(tx, <<"OK", pos>>)
             /\ UNCHANGED <<currentState, solA, solB, led, eeprom>>]_vars

\* the bistable sketch in state B has re-pulsed coil B for the byte 'B'
C20_Witness ==
  /\ variant = "bi" /\ pc = "drive" /\ ops = <<>> /\ ret = "cmd"
  /\ tr.on /\ tr.from = chB /\ pos = chB /\ tr.wrote /\ ~tr.saved
  /\ eeprom = chB

\* C21: in every sketch each committed transition, also one whose target is
\* the current state, restarts the guard window at the time of the commit,
\* and no button edge sampled less than EMI_GUARD_MS after it is accepted.
C21_CommitOpensGuard ==
  [][/\ commitTime' # None => lastChangeTime' = commitTime'
     /\ \A k \in 0..(NumBtn(variant) - 1) :
          ( /\ C10_Sampled(k)
            /\ commitTime # None /\ millis - commitTime < EMI_GUARD_MS )
          => pc' # "setValve"]_vars

\* the guard window of the last committed transition is open
C22_WindowOpen == commitTime # None /\ millis - commitTime < EMI_GUARD_MS

\* C22 as stated: a setValve call made, by a button or a serial command,
\* inside the guard window of the previous transition changes neither the
\* state, the coil and LED outputs nor the EEPROM cell.
C22_RejectsInGuard ==
  (tr.on /\ C22_WindowOpen) =>
    /\ currentState = tr.from
    /\ <<solA, solB, led>> = tr.pins0
    /\ eeprom = tr.cell0

\* C22 with the filter where the code has it: setValve has no guard test and
\* never rejects; a legal serial byte read inside the guard window calls
\* setValve, which returns with the requested state; only checkButtons() of
\* the guarded sketches filters: a pass that begins inside the guard window
\* polls no button and leaves state, outputs and cell alone before the
\* serial half.
C22_OnlyPollerFilters ==
  [][/\ (pc = "serial" /\ cmd' \in Legal(variant) /\ C22_WindowOpen)
          => (pc' = "setValve" /\ pos' = cmd')
     /\ (pc = "setValve" /\ pc' = "drive")
          => \E j \in 1..Len(ops') : ops'[j][1] = "STATE" /\ ops'[j][2] = pos
     /\ pc' \in {"btnDone", "cmdDone"} => currentState' = pos'
     /\ ( /\ Guarded(variant) /\ pc = "loop" /\ pc' \notin {"loop", "setup"}
          /\ millis - lastChangeTime < EMI_GUARD_MS )
          => /\ pc' = "serial"
             /\ UNCHANGED <<currentState, solA, solB, led, eeprom>>]_vars

\* a serial command inside the guard window has changed state and cell
C22_Witness ==
  /\ variant = "tri3" /\ pc = "drive" /\ ops = <<>> /\ ret = "cmd" /\ tr.on
  /\ C22_WindowOpen /\ tr.from # pos /\ currentState = pos /\ eeprom = pos

\* C23: in the guarded sketches a channel whose press was sampled inside the
\* guard window and that is still pressed when polling resumes causes no
\* setValve call (so no BTN line) while it stays pressed; after it has been
\* sampled released, the press that does cause one is sampled outside the
\* guard window of every committed transition.
C23_HeldThroughGuard ==
  (Guarded(variant) /\ pc = "setValve" /\ ret = "btn" /\ i \in follow) =>
    /\ held[i] \notin {"pressed", "held"}
    /\ held[i] = "released" => ~C22_WindowOpen

\* the running call still has the write that switches the pin off
C24_OffPending(pin) ==
  pc = "drive" /\ \E j \in 1..Len(ops) : ops[j][1] = pin /\ ops[j][2] = LOW

\* C24: in the bistable sketch a coil or the LED is on only inside
\* pulseValve(), with the write that switches it off still to come, so at
\* every boundary between two passes of loop() all three are off; and when
\* setValve returns, and between passes after it, the state is the letter
\* of the last call.
C24_BistableOffAtRest ==
  variant = "bi" =>
    /\ solA = HIGH => C24_OffPending("SOL_A")
    /\ solB = HIGH => C24_OffPending("SOL_B")
    /\ led = HIGH => C24_OffPending("LED")
    /\ pc = "loop" => (solA = LOW /\ solB = LOW /\ led = LOW)
    /\ pc \in {"btnDone", "cmdDone"} => currentState = pos
    /\ (pc = "loop" /\ lastCommitted # None) => currentState = lastCommitted

C24_Witness ==
  /\ variant = "bi" /\ pc = "loop" /\ rst.kind = "none"
  /\ lastCommitted = chB /\ currentState = chB /\ commitTime >= PULSE_MS
  /\ solA = LOW /\ solB = LOW /\ led = LOW

====
